---- MODULE Spec2Model ----
(***************************************************************************)
(* EnsembleGenerator.generate_greedy_search (src/intunlu/ensemble.py) as a *)
(* state machine: one generation call over an ensemble of loaded models.   *)
(*                                                                         *)
(* The transformer, its tokenizer and torch are external collaborators.    *)
(* A loaded model is represented by its checkpoint's weights; its forward  *)
(* step is a deterministic function of those weights and of everything the *)
(* call feeds it (decoder ids, cached key/values, encoder output).  Every  *)
(* cached key/value and every encoder output carries the index of the      *)
(* member that computed it.  The batch has one row (src_text is a single   *)
(* string), so the per-row tensors unfinished_sequences, sequence_lengths  *)
(* and next_tokens are held as the value of row 0.                         *)
(***************************************************************************)
EXTENDS Integers, Sequences, FiniteSets, TLC

\* ------------------------------------------------------------------ bounds
MaxMembers   == 2      \* ensemble sizes 1..MaxMembers
MaxMaxLength == 4      \* config.max_length ranges over 1..MaxMaxLength
MaxSrcLen    == 2      \* src_text holds 0..MaxSrcLen word tokens

\* --------------------------------------------------------- python values
None == -1

\* The tokenizer's ids: T5's <pad> and </s>, and one ordinary word piece.
TokPad == 0
TokEos == 1
Word   == 2

\* The weights of the checkpoints on disk: the next-token scores each one
\* gives over the vocabulary in context 0 (see Forward).
Checkpoints == << <<3, 2, 0>>, <<0, 2, 3>>, <<1, 3, 2>> >>

Ckpts == 1..Len(Checkpoints)
VocabSize == Len(Checkpoints[1])
Vocab == 0..(VocabSize - 1)

ModelClasses == {"SummarizerModel", "SummarizerSubModel", "OtherModel"}
TokenizerClasses == {"T5Tokenizer", "T5TokenizerFast"}
PoolTypes == {"mean", "max", "sum"}

\* The class hierarchy: SummarizerSubModel derives from SummarizerModel.
Bases(cls) == IF cls = "SummarizerSubModel" THEN {cls, "SummarizerModel"} ELSE {cls}

\* Mutant of IsInstance: the two arguments are swapped.
IsInstanceSwapped(cls, ref_type) == cls \in Bases(ref_type)

\* isinstance(obj, ref_type): the object's class is ref_type or a subclass.
IsInstance(cls, ref_type) == ref_type \in Bases(cls)

\* ---------------------------------------------------------------- helpers
RECURSIVE SumSeq(_)
SumSeq(s) == IF s = <<>> THEN 0 ELSE Head(s) + SumSeq(Tail(s))

RECURSIVE SeqsOver(_, _)
SeqsOver(S, n) ==
  IF n = 0 THEN {<<>>}
  ELSE LET shorter == SeqsOver(S, n - 1)
       IN  shorter \cup {Append(s, x) : s \in {t \in shorter : Len(t) = n - 1}, x \in S}

VARIABLES
  models,                \* self.models: <<[cls, tokenizer, ckpt]>>
  config,                \* self.models[0].model.config
  src_text,              \* argument
  pool_type,             \* argument
  pc,                    \* position in generate_greedy_search
  err,                   \* the exception that ended the call, or "none"
  pad_token_id,
  input_ids,
  model_kwargs,          \* [encoder_outputs, past]
  cur_len,
  unfinished_sequences,
  sequence_lengths,
  member,                \* index of the `for model in self.models` loop
  model_inputs,
  next_token_logits,     \* the list of member logits of this step
  outputs,               \* the variable `outputs` (last forward's result)
  pooled,                \* next_token_logits after pooling
  next_tokens,
  notices,               \* what print() has emitted
  pred,                  \* the returned text (ids that survive decoding)
  iters,                 \* completed loop iterations
  init_len,              \* length of the prepared decoder input
  fwdLog,                \* every member forward executed: what it was fed
  encRuns,               \* members whose encoder has run
  tensorOps,             \* torch.cat / torch.mean / torch.max executed
  other                  \* a second call on the same object: its own locals

vars == << models, config, src_text, pool_type, pc, err, pad_token_id, input_ids,
           model_kwargs, cur_len, unfinished_sequences, sequence_lengths, member,
           model_inputs, next_token_logits, outputs, pooled, next_tokens, notices,
           pred, iters, init_len, fwdLog, encRuns, tensorOps, other >>

inputs == << models, config, src_text, pool_type >>

N == Len(models)

\* ------------------------------------------------- external collaborators
\* A tensor or output object not yet assigned.
NoEncoderOutputs == [by |-> 0, val |-> 0]
NoOutputs == [logits |-> [v \in Vocab |-> 0], past_key_values |-> <<>>]
NoInputs == [ids |-> <<>>, past |-> <<>>, encoder_outputs |-> NoEncoderOutputs]

\* tokenizer('summarize: ' + src_text): the prefix's piece, then the text's.
Tokenize(text) == <<Word>> \o text

\* The encoder of member i over the tokenized input: a value that depends on
\* the member's weights and on the input, tagged with the member that ran it.
Encoder(ms, i, ids) == [by |-> i, val |-> ms[i].ckpt + SumSeq(ids)]

\* The key/value a decoder with checkpoint c computes for one position.
KV(c, tok) == c * (tok + 1)

\* prepare_inputs_for_generation: with a cache only the last id is fed.
PrepareInputs(ids, kwargs) ==
  [ids             |-> IF kwargs.past = <<>> THEN ids ELSE <<ids[Len(ids)]>>,
   past            |-> kwargs.past,
   encoder_outputs |-> kwargs.encoder_outputs]

\* model.model(**model_inputs, return_dict=True) of member i of the list ms.  The history
\* the decoder attends to is the cache it is handed followed by the key/values
\* it computes itself for the ids it is fed; with use_cache the result carries
\* that history back as past_key_values.  logits[:, -1, :] is the member's
\* score vector, read at an offset that the attended context determines.
Forward(ms, i, mi) ==
  LET own  == [p \in 1..Len(mi.ids) |-> [by |-> i, kv |-> KV(ms[i].ckpt, mi.ids[p])]]
      hist == mi.past \o own
      enc  == mi.encoder_outputs.val
      ctx  == (enc + SumSeq([p \in 1..Len(hist) |-> hist[p].kv])) % VocabSize
  IN  [logits          |-> [v \in Vocab |-> Checkpoints[ms[i].ckpt][((v + ctx) % VocabSize) + 1]],
       past_key_values |-> hist]

\* ------------------------------------------------------------ score pooling
\* Scores are exact fractions num/den, so that the mean is not rounded.
Frac(n, d) == [num |-> n, den |-> d]
Less(a, b) == a.num * b.den < b.num * a.den
SameScore(a, b) == a.num * b.den = b.num * a.den

MaxOf(S) == CHOOSE x \in S : \A y \in S : y <= x

\* Mutant of PoolMean: the mean is taken over the vocabulary (dim=-1) of the
\* first row instead of over the members.
PoolMeanWrongDim(logits) ==
  [v \in Vocab |-> Frac(SumSeq([w \in 1..VocabSize |-> logits[1][w - 1]]), VocabSize)]

\* torch.mean(torch.cat(logits, dim=0), dim=0, keepdim=True)
PoolMean(logits) ==
  [v \in Vocab |-> Frac(SumSeq([k \in 1..Len(logits) |-> logits[k][v]]), Len(logits))]

\* Mutant of PoolMax: element [1] of torch.max's result (the indices of the
\* maxima) is taken instead of element [0] (the values).
PoolMaxIndices(logits) ==
  [v \in Vocab |->
     Frac((CHOOSE k \in 1..Len(logits) :
             /\ \A j \in 1..Len(logits) : logits[j][v] <= logits[k][v]
             /\ \A j \in 1..(k - 1) : logits[j][v] < logits[k][v]) - 1, 1)]

\* torch.max(torch.cat(logits, dim=0), dim=0, keepdim=True)[0]
PoolMax(logits) ==
  [v \in Vocab |-> Frac(MaxOf({logits[k][v] : k \in 1..Len(logits)}), 1)]

Pool(type, logits) == IF type = "mean" THEN PoolMean(logits) ELSE PoolMax(logits)

\* logits_processor(input_ids, next_token_logits): every processor argument
\* is None and the configuration enables none, so the list is empty.
LogitsProcessor(ids, scores) == scores

\* torch.argmax(scores, dim=-1): the first index holding the maximum.
ArgMax(scores) ==
  CHOOSE v \in Vocab :
    /\ \A w \in Vocab : ~Less(scores[v], scores[w])
    /\ \A w \in Vocab : w < v => Less(scores[w], scores[v])

\* next_tokens * unfinished_sequences + pad_token_id * (1 - unfinished_sequences)
PadOverride(tok, unfinished, pad) == tok * unfinished + pad * (1 - unfinished)

\* Mutant of UpdateSeqLength: the length recorded counts the token just added.
UpdateSeqLengthAdvanced(seqlen, unfinished, len, is_eos) ==
  LET justDone == unfinished * (IF is_eos THEN 1 ELSE 0)
  IN  [sequence_lengths     |-> IF justDone = 1 THEN len + 1 ELSE seqlen,
       unfinished_sequences |-> unfinished * (IF is_eos THEN 0 ELSE 1)]

\* _update_seq_length_for_generation(sequence_lengths, unfinished_sequences,
\* cur_len, is_eos): a row still unfinished that gets eos records cur_len and
\* becomes finished; a finished row stays as it is.
UpdateSeqLength(seqlen, unfinished, len, is_eos) ==
  LET justDone == unfinished * (IF is_eos THEN 1 ELSE 0)
  IN  [sequence_lengths     |-> IF justDone = 1 THEN len ELSE seqlen,
       unfinished_sequences |-> unfinished * (IF is_eos THEN 0 ELSE 1)]

\* _update_model_kwargs_for_generation(outputs, model_kwargs, ...): the cache
\* of `outputs` becomes the cache of the next step.
UpdateModelKwargs(outs, kwargs) == [kwargs EXCEPT !.past = outs.past_key_values]

\* Mutant of LoopTest: the comparison admits cur_len = max_length.
LoopTestInclusive(len, max_length) == len <= max_length

\* line 119: while cur_len < max_length
LoopTest(len, max_length) == len < max_length

\* Mutant of StoppingCriteria: fires only beyond max_length.
StoppingCriteriaStrict(ids, max_length) == Len(ids) > max_length

\* MaxLengthCriteria(max_length)(input_ids, None)
StoppingCriteria(ids, max_length) == Len(ids) >= max_length

\* Mutant of AppendToken: the token is concatenated twice.
AppendTokenTwice(ids, tok) == Append(Append(ids, tok), tok)

\* Mutant of AppendToken: the result of torch.cat is not assigned.
AppendTokenDiscarded(ids, tok) == ids

\* torch.cat([input_ids, next_tokens[:, None]], dim=-1)
AppendToken(ids, tok) == Append(ids, tok)

\* Mutant of TrackTermination: the break of line 163 is missing.
TrackTerminationNoBreak(seqlen, unfinished, len, tok, ids) ==
  LET upd == IF config.eos_token_id # None
               THEN UpdateSeqLength(seqlen, unfinished, len, tok = config.eos_token_id)
               ELSE [sequence_lengths |-> seqlen, unfinished_sequences |-> unfinished]
  IN  [sequence_lengths     |-> upd.sequence_lengths,
       unfinished_sequences |-> upd.unfinished_sequences,
       stop |-> StoppingCriteria(ids, config.max_length)]

\* Mutant of TrackTermination: the termination state is updated against the
\* tokenizer's eos id even when the configuration names none.
TrackTerminationUnguarded(seqlen, unfinished, len, tok, ids) ==
  LET upd == UpdateSeqLength(seqlen, unfinished, len, tok = TokEos)
  IN  [sequence_lengths     |-> upd.sequence_lengths,
       unfinished_sequences |-> upd.unfinished_sequences,
       stop |-> upd.unfinished_sequences = 0 \/ StoppingCriteria(ids, config.max_length)]

\* Mutant of TrackTermination: the flag is recomputed from the current token
\* alone and the loop does not break on a finished row.
TrackTerminationFlagOnly(seqlen, unfinished, len, tok, ids) ==
  LET is_eos == config.eos_token_id # None /\ tok = config.eos_token_id
  IN  [sequence_lengths     |-> IF is_eos THEN len ELSE seqlen,
       unfinished_sequences |-> IF is_eos THEN 0 ELSE 1,
       stop |-> StoppingCriteria(ids, config.max_length)]

\* lines 151-167: the update of the termination state (only with an eos id
\* configured) and the two breaks.
TrackTermination(seqlen, unfinished, len, tok, ids) ==
  LET upd == IF config.eos_token_id # None
               THEN UpdateSeqLength(seqlen, unfinished, len, tok = config.eos_token_id)
               ELSE [sequence_lengths |-> seqlen, unfinished_sequences |-> unfinished]
  IN  [sequence_lengths     |-> upd.sequence_lengths,
       unfinished_sequences |-> upd.unfinished_sequences,
       stop |-> upd.unfinished_sequences = 0 \/ StoppingCriteria(ids, config.max_length)]

\* Mutant of ResolvePad: the substitution of lines 62-64 is missing.
ResolvePadNoSubstitution(cfg) == cfg.pad_token_id

\* lines 39 and 61-64: pad_token_id, replaced by eos_token_id when absent.
ResolvePad(cfg) ==
  IF cfg.pad_token_id = None /\ cfg.eos_token_id # None THEN cfg.eos_token_id
  ELSE cfg.pad_token_id

PadAssertionError == "AssertionError: If eos_token_id is defined, make sure that pad_token_id is defined."

\* convert_ids_to_tokens(input_ids[0], skip_special_tokens=True)
RECURSIVE SkipSpecial(_)
SkipSpecial(ids) ==
  IF ids = <<>> THEN <<>>
  ELSE IF Head(ids) \in {TokPad, TokEos} THEN SkipSpecial(Tail(ids))
       ELSE <<Head(ids)>> \o SkipSpecial(Tail(ids))

\* ------------------------------------------------------------------- Init
Configs ==
  [max_length         : 1..MaxMaxLength,
   pad_token_id       : {None, TokPad},
   eos_token_id       : {None, TokEos},
   is_encoder_decoder : BOOLEAN]

\* The state shared by every way of entering the call.
AtCall ==
  /\ config \in Configs
  /\ src_text \in SeqsOver({Word}, MaxSrcLen)
  /\ pool_type \in PoolTypes
  /\ pc = "call"
  /\ err = "none"
  /\ pad_token_id = None
  /\ input_ids = <<>>
  /\ model_kwargs = [encoder_outputs |-> NoEncoderOutputs, past |-> <<>>]
  /\ cur_len = 0
  /\ unfinished_sequences = 1
  /\ sequence_lengths = 0
  /\ member = 0
  /\ model_inputs = NoInputs
  /\ next_token_logits = <<>>
  /\ outputs = NoOutputs
  /\ pooled = <<>>
  /\ next_tokens = None
  /\ notices = {}
  /\ pred = <<>>
  /\ iters = 0
  /\ init_len = 0
  /\ fwdLog = <<>>
  /\ encRuns = {}
  /\ tensorOps = 0

\* No second call is made.
NoCall == [pc |-> "none", src_text |-> <<>>, pool_type |-> "mean", s |-> <<>>, pred |-> <<>>]

\* __init__(paths): every checkpoint is loaded as a SummarizerModel.
Init ==
  /\ other = NoCall
  /\ \E n \in 1..MaxMembers :
       models \in [1..n -> [cls : {"SummarizerModel"}, tokenizer : {"T5Tokenizer"},
                            ckpt : Ckpts]]
  /\ AtCall

\* self.models is a public list: members put there by the caller may be of
\* any class.  Their weights are those of the first checkpoint.
InitPlugged ==
  /\ other = NoCall
  /\ \E n \in 1..MaxMembers :
       models \in [1..n -> [cls : ModelClasses, tokenizer : TokenizerClasses,
                            ckpt : {1}]]
  /\ AtCall

\* ---------------------------------------------------------------- actions
\* lines 26-35: the two isinstance loops.
CheckCompat ==
  /\ pc = "call"
  /\ IF \E k \in 2..N : ~IsInstance(models[k].cls, models[1].cls)
       THEN pc' = "error" /\ err' = "ValueError: Not all models are of the same type."
       ELSE IF \E k \in 2..N : ~IsInstance(models[k].tokenizer, models[1].tokenizer)
              THEN pc' = "error" /\ err' = "ValueError: Not all tokenizer are of the same type."
              ELSE pc' = "prepare" /\ err' = err
  /\ UNCHANGED << inputs, other, pad_token_id, input_ids, model_kwargs, cur_len,
                  unfinished_sequences, sequence_lengths, member, model_inputs,
                  next_token_logits, outputs, pooled, next_tokens, notices, pred,
                  iters, init_len, fwdLog, encRuns, tensorOps >>

\* lines 37-115: configuration, tokenization, the encoder run, the decoder
\* input, the notices and the sequence bookkeeping.  The encoder run always
\* stores encoder_outputs, so the ValueError of lines 78-79 is not raised.
Prepare ==
  /\ pc = "prepare"
  /\ LET src  == Tokenize(src_text)
         subst == config.pad_token_id = None /\ config.eos_token_id # None
         ids  == IF config.is_encoder_decoder THEN <<TokPad>> ELSE src
     IN  /\ pad_token_id' = ResolvePad(config)
         /\ model_kwargs' =
              [encoder_outputs |-> IF config.is_encoder_decoder THEN Encoder(models, 1, src)
                                   ELSE NoEncoderOutputs,
               past            |-> <<>>]
         /\ encRuns' = IF config.is_encoder_decoder THEN {1} ELSE {}
         /\ input_ids' = ids
         /\ notices' = (IF subst THEN {"pad_token_id set to eos_token_id"} ELSE {})
                       \cup (IF Len(ids) >= config.max_length
                               THEN {"input length >= max_length"} ELSE {})
         /\ sequence_lengths' = config.max_length
         /\ unfinished_sequences' = 1
         /\ cur_len' = Len(ids)
         /\ init_len' = Len(ids)
  /\ pc' = "loop"
  /\ UNCHANGED << inputs, other, err, member, model_inputs, next_token_logits, outputs,
                  pooled, next_tokens, pred, iters, fwdLog, tensorOps >>

\* line 119 and line 121: the loop test, then the inputs of this step.
\* Mutant of StepLogits: the list of the previous step is kept and appended to.
StepLogitsKept(prev) == prev

\* line 123: every step collects the members' scores in a new list.
StepLogits(prev) == <<>>

LoopHead ==
  /\ pc = "loop"
  /\ IF LoopTest(cur_len, config.max_length)
       THEN /\ pc' = "forward"
            /\ model_inputs' = PrepareInputs(input_ids, model_kwargs)
            /\ next_token_logits' = StepLogits(next_token_logits)
            /\ member' = 1
       ELSE /\ pc' = "decode"
            /\ UNCHANGED << model_inputs, next_token_logits, member >>
  /\ UNCHANGED << inputs, other, err, pad_token_id, input_ids, model_kwargs, cur_len,
                  unfinished_sequences, sequence_lengths, outputs, pooled,
                  next_tokens, notices, pred, iters, init_len, fwdLog, encRuns,
                  tensorOps >>

\* lines 124-131: one member's forward step on the inputs of this step.
ForwardMember ==
  /\ pc = "forward"
  /\ outputs' = Forward(models, member, model_inputs)
  /\ next_token_logits' = Append(next_token_logits, outputs'.logits)
  /\ fwdLog' = Append(fwdLog,
       [member |-> member, step |-> iters, ids |-> input_ids,
        encBy  |-> model_inputs.encoder_outputs.by,
        pastBy |-> {model_inputs.past[p].by : p \in 1..Len(model_inputs.past)}])
  /\ IF member < N THEN member' = member + 1 /\ pc' = pc
                   ELSE member' = member /\ pc' = "pool"
  /\ UNCHANGED << inputs, other, err, pad_token_id, input_ids, model_kwargs, cur_len,
                  unfinished_sequences, sequence_lengths, model_inputs, pooled,
                  next_tokens, notices, pred, iters, init_len, encRuns, tensorOps >>

ForwardError == "forward step failed"

\* Mutant of ForwardFails: the exception is caught and the member loop goes on.
ForwardFailsSwallowed ==
  /\ pc = "forward"
  /\ err' = ForwardError
  /\ UNCHANGED << inputs, other, pc, pad_token_id, input_ids, model_kwargs, cur_len,
                  unfinished_sequences, sequence_lengths, member, model_inputs,
                  next_token_logits, outputs, pooled, next_tokens, notices, pred,
                  iters, init_len, fwdLog, encRuns, tensorOps >>

\* lines 126-129: the forward step of a member raises (the call is aborted).
ForwardFails ==
  /\ pc = "forward"
  /\ pc' = "error"
  /\ err' = ForwardError
  /\ UNCHANGED << inputs, other, pad_token_id, input_ids, model_kwargs, cur_len,
                  unfinished_sequences, sequence_lengths, member, model_inputs,
                  next_token_logits, outputs, pooled, next_tokens, notices, pred,
                  iters, init_len, fwdLog, encRuns, tensorOps >>

\* lines 132-139: torch.cat, then the reduction that pool_type names.
PoolScores ==
  /\ pc = "pool"
  /\ IF pool_type \in {"mean", "max"}
       THEN /\ pooled' = Pool(pool_type, next_token_logits)
            /\ tensorOps' = tensorOps + 2
            /\ pc' = "select"
            /\ err' = err
       ELSE /\ pooled' = pooled
            /\ tensorOps' = tensorOps + 1
            /\ pc' = "error"
            /\ err' = "ValueError: pool_type is not a recognized value."
  /\ UNCHANGED << inputs, other, pad_token_id, input_ids, model_kwargs, cur_len,
                  unfinished_sequences, sequence_lengths, member, model_inputs,
                  next_token_logits, outputs, next_tokens, notices, pred, iters,
                  init_len, fwdLog, encRuns >>

\* lines 141-170: selection, the pad override, the append, the termination
\* state, the cache, the two breaks and the increment of cur_len.
SelectAndUpdate ==
  /\ pc = "select"
  /\ IF config.eos_token_id # None /\ pad_token_id = None
       THEN /\ pc' = "error"
            /\ err' = PadAssertionError
            /\ UNCHANGED << next_tokens, input_ids, sequence_lengths,
                            unfinished_sequences, model_kwargs, cur_len, iters >>
       ELSE
         LET scores == LogitsProcessor(input_ids, pooled)
             tok    == IF config.eos_token_id # None
                         THEN PadOverride(ArgMax(scores), unfinished_sequences, pad_token_id)
                         ELSE ArgMax(scores)
             ids    == AppendToken(input_ids, tok)
             upd    == TrackTermination(sequence_lengths, unfinished_sequences, cur_len, tok, ids)
             stop   == upd.stop
         IN  /\ next_tokens' = tok
             /\ input_ids' = ids
             /\ sequence_lengths' = upd.sequence_lengths
             /\ unfinished_sequences' = upd.unfinished_sequences
             /\ model_kwargs' = UpdateModelKwargs(outputs, model_kwargs)
             /\ cur_len' = IF stop THEN cur_len ELSE cur_len + 1
             /\ pc' = IF stop THEN "decode" ELSE "loop"
             /\ iters' = iters + 1
             /\ err' = err
  /\ UNCHANGED << inputs, other, pad_token_id, member, model_inputs,
                  next_token_logits, outputs, pooled, notices, pred, init_len,
                  fwdLog, encRuns, tensorOps >>

\* lines 172-175: decoding of the final sequence and the return.  The text is
\* held as the ids that survive skip_special_tokens; the re-spacing of ' . '
\* acts on the characters of the string and drops no token.
Decode ==
  /\ pc = "decode"
  /\ pred' = SkipSpecial(input_ids)
  /\ pc' = "done"
  /\ UNCHANGED << inputs, other, err, pad_token_id, input_ids, model_kwargs, cur_len,
                  unfinished_sequences, sequence_lengths, member, model_inputs,
                  next_token_logits, outputs, pooled, next_tokens, notices, iters,
                  init_len, fwdLog, encRuns, tensorOps >>

Next ==
  \/ CheckCompat
  \/ Prepare
  \/ LoopHead
  \/ ForwardMember
  \/ ForwardFails
  \/ PoolScores
  \/ SelectAndUpdate
  \/ Decode

Spec == Init /\ [][Next]_vars

SpecPlugged == InitPlugged /\ [][Next]_vars

TypeOK ==
  /\ pc \in {"call", "prepare", "loop", "forward", "pool", "select", "decode", "done", "error"}
  /\ unfinished_sequences \in {0, 1}
  /\ \A p \in 1..Len(input_ids) : input_ids[p] \in Vocab

\* ------------------------------------------------------------------ claims
Max0(x) == IF x < 0 THEN 0 ELSE x

\* C1 (as stated): the shared sequence grows by exactly one token per completed
\* iteration and a finished call has made at most max_length - initial_length
\* iterations.
C1_AtMostMaxLengthMinusInitial ==
  /\ Len(input_ids) = init_len + iters
  /\ pc = "done" => iters <= config.max_length - init_len

\* C1 (amended): the shared sequence grows by exactly one token per completed
\* iteration; the call makes at most max(0, max_length - initial_length)
\* iterations, and an iteration is under way only below that number.
C1_OneTokenPerIterationBounded ==
  /\ Len(input_ids) = init_len + iters
  /\ iters <= Max0(config.max_length - init_len)
  /\ pc \in {"forward", "pool", "select"} => iters < config.max_length - init_len

\* A call that ran the loop to the length limit, over several iterations.
C1_Witness ==
  /\ pc = "done"
  /\ iters >= 2
  /\ iters = config.max_length - init_len

\* C2: with an eos id configured, a finished row stays finished, keeps its
\* recorded sequence_length, and any token appended afterwards is the pad id.
C2_FinishedRowFrozen ==
  [][(config.eos_token_id # None /\ pc \notin {"call", "prepare"}
        /\ unfinished_sequences = 0)
       => /\ unfinished_sequences' = 0
          /\ sequence_lengths' = sequence_lengths
          /\ input_ids' # input_ids => input_ids' = Append(input_ids, pad_token_id)]_vars

\* The row finished on an eos token and the call went on to return.
C2_Witness ==
  /\ pc = "done"
  /\ config.eos_token_id # None
  /\ unfinished_sequences = 0
  /\ iters >= 2
  /\ sequence_lengths < config.max_length

\* C3: the cache fed to a member's forward step was produced by that member
\* alone.
C3_MemberReadsOwnCacheOnly ==
  \A e \in 1..Len(fwdLog) : fwdLog[e].pastBy \subseteq {fwdLog[e].member}

\* C4: for an encoder-decoder ensemble, once the input is prepared every
\* member's encoder has run, and every forward step is fed the encoder output
\* of the member that executes it.
C4_MemberReadsOwnEncoderOutput ==
  (config.is_encoder_decoder /\ init_len > 0)
    => /\ encRuns = 1..N
       /\ \A e \in 1..Len(fwdLog) : fwdLog[e].encBy = fwdLog[e].member

\* ------------------------------------------------ the call as a function
\* The same call on a member list ms, as a function of the number of loop
\* iterations: what lines 37-170 compute when no forward step raises.
EnsPreparedFor(ms, text) ==
  LET src == Tokenize(text)
      ids == IF config.is_encoder_decoder THEN <<TokPad>> ELSE src
  IN  [ids     |-> ids,
       kwargs  |-> [encoder_outputs |-> IF config.is_encoder_decoder THEN Encoder(ms, 1, src)
                                        ELSE NoEncoderOutputs,
                    past            |-> <<>>],
       pad     |-> ResolvePad(config),
       unfinished |-> 1,
       seqlen  |-> config.max_length,
       cur_len |-> Len(ids),
       running |-> TRUE,
       iters   |-> 0,
       pooled  |-> <<>>]

EnsPrepared(ms) == EnsPreparedFor(ms, src_text)

EnsIterateFor(ms, pt, s) ==
  IF ~s.running \/ ~LoopTest(s.cur_len, config.max_length) THEN [s EXCEPT !.running = FALSE]
  ELSE
    LET mi   == PrepareInputs(s.ids, s.kwargs)
        outs == [k \in 1..Len(ms) |-> Forward(ms, k, mi)]
        pl   == Pool(pt, [k \in 1..Len(ms) |-> outs[k].logits])
        best == ArgMax(LogitsProcessor(s.ids, pl))
        tok  == IF config.eos_token_id # None THEN PadOverride(best, s.unfinished, s.pad)
                ELSE best
        ids  == AppendToken(s.ids, tok)
        upd  == TrackTermination(s.seqlen, s.unfinished, s.cur_len, tok, ids)
    IN  [s EXCEPT !.ids = ids,
                  !.kwargs = UpdateModelKwargs(outs[Len(ms)], s.kwargs),
                  !.unfinished = upd.unfinished_sequences,
                  !.seqlen = upd.sequence_lengths,
                  !.cur_len = IF upd.stop THEN s.cur_len ELSE s.cur_len + 1,
                  !.running = ~upd.stop,
                  !.iters = s.iters + 1,
                  !.pooled = pl]

EnsIterate(ms, s) == EnsIterateFor(ms, pool_type, s)

RECURSIVE EnsRun(_, _)
EnsRun(ms, k) == IF k = 0 THEN EnsPrepared(ms) ELSE EnsIterate(ms, EnsRun(ms, k - 1))

RECURSIVE EnsRunFor(_, _, _, _)
EnsRunFor(ms, text, pt, k) ==
  IF k = 0 THEN EnsPreparedFor(ms, text) ELSE EnsIterateFor(ms, pt, EnsRunFor(ms, text, pt, k - 1))

\* The function agrees with the state machine on the call's own member list.
EnsRunAgrees ==
  (pc \in {"loop", "forward", "pool", "select", "decode", "done"} /\ pool_type \in {"mean", "max"})
    => LET s == EnsRun(models, iters)
       IN  /\ s.ids = input_ids
           /\ s.kwargs = model_kwargs
           /\ s.unfinished = unfinished_sequences
           /\ s.seqlen = sequence_lengths
           /\ s.cur_len = cur_len
           /\ s.iters = iters
           /\ (pc \in {"decode", "done"}) => ~EnsIterate(models, s).running
           /\ (pc \in {"forward", "pool", "select"}) => s.running
           /\ (pc = "select") => EnsRun(models, iters + 1).pooled = pooled

Perms == {f \in [1..N -> 1..N] : \A a, b \in 1..N : f[a] = f[b] => a = b}
Permute(ms, f) == [k \in 1..N |-> ms[f[k]]]

\* C5: with the member list permuted, the pooled score vector of every step
\* and the final sequence are those of the original order.
C5_PermutationKeepsPooledScores ==
  pool_type \in {"mean", "max"} =>
    \A f \in Perms :
      /\ pc = "select" =>
           LET t == EnsRun(Permute(models, f), iters + 1)
           IN  /\ t.iters = iters + 1
               /\ \A v \in Vocab : SameScore(t.pooled[v], pooled[v])
      /\ pc = "done" => EnsRun(Permute(models, f), config.max_length).ids = input_ids

\* ------------------------------------------- single-model greedy decoding
\* Greedy search of one model m on the same input and configuration: the
\* model's own encoder output and cache, its own scores, no pooling.
GreedyPrepared(m) ==
  LET src == Tokenize(src_text)
      ids == IF config.is_encoder_decoder THEN <<TokPad>> ELSE src
  IN  [ids        |-> ids,
       enc        |-> IF config.is_encoder_decoder THEN Encoder(<<m>>, 1, src)
                      ELSE NoEncoderOutputs,
       past       |-> <<>>,
       unfinished |-> 1,
       cur_len    |-> Len(ids),
       running    |-> TRUE,
       iters      |-> 0]

GreedyIterate(m, s) ==
  IF ~s.running \/ ~(s.cur_len < config.max_length) THEN [s EXCEPT !.running = FALSE]
  ELSE
    LET out  == Forward(<<m>>, 1, [ids |-> IF s.past = <<>> THEN s.ids ELSE <<s.ids[Len(s.ids)]>>,
                                   past |-> s.past, encoder_outputs |-> s.enc])
        best == ArgMax([v \in Vocab |-> Frac(out.logits[v], 1)])
        pad  == IF config.pad_token_id = None THEN config.eos_token_id ELSE config.pad_token_id
        tok  == IF config.eos_token_id # None /\ s.unfinished = 0 THEN pad ELSE best
        ids  == Append(s.ids, tok)
        unf  == IF config.eos_token_id # None /\ tok = config.eos_token_id THEN 0
                ELSE s.unfinished
        stop == unf = 0 \/ Len(ids) >= config.max_length
    IN  [s EXCEPT !.ids = ids,
                  !.past = out.past_key_values,
                  !.unfinished = unf,
                  !.cur_len = IF stop THEN s.cur_len ELSE s.cur_len + 1,
                  !.running = ~stop,
                  !.iters = s.iters + 1]

RECURSIVE GreedyRun(_, _)
GreedyRun(m, k) == IF k = 0 THEN GreedyPrepared(m) ELSE GreedyIterate(m, GreedyRun(m, k - 1))

AllSameCheckpoint == \A k \in 1..N : models[k].ckpt = models[1].ckpt

\* C6: an ensemble of copies of one checkpoint (in particular an ensemble of
\* size 1), pooled by mean or max, selects at every step the token that
\* single-model greedy decoding selects, stops at the same step and returns
\* the same sequence.
C6_CopiesDecodeAsSingleModel ==
  (AllSameCheckpoint /\ pool_type \in {"mean", "max"}
     /\ pc \in {"loop", "forward", "pool", "select", "decode", "done"})
    => LET g == GreedyRun(models[1], iters)
       IN  /\ g.ids = input_ids
           /\ g.iters = iters
           /\ pc \in {"forward", "pool", "select"} => GreedyIterate(models[1], g).iters = iters + 1
           /\ pc \in {"decode", "done"} => ~GreedyIterate(models[1], g).running
           /\ pc = "done" => pred = SkipSpecial(g.ids)

\* Two copies of one checkpoint, mean pooling, several steps, returned.
C6_Witness ==
  /\ pc = "done"
  /\ N = 2
  /\ AllSameCheckpoint
  /\ pool_type = "mean"
  /\ config.eos_token_id # None
  /\ iters >= 2
  /\ pred # <<>>

PoolTypeError == "ValueError: pool_type is not a recognized value."

\* C7: a call whose pool_type is neither 'mean' nor 'max' never returns text.
C7_UnrecognizedPoolTypeNeverReturns ==
  pool_type \notin {"mean", "max"} => pc # "done"

\* C8: when the pool_type ValueError is raised, no member forward step and no
\* concatenation or reduction of scores has been executed in the call.
C8_PoolTypeErrorBeforeTensorWork ==
  err = PoolTypeError => (fwdLog = <<>> /\ tensorOps = 0)

ModelTypeMismatch == \E k \in 2..N : models[1].cls \notin Bases(models[k].cls)
TokenizerTypeMismatch == \E k \in 2..N : models[1].tokenizer \notin Bases(models[k].tokenizer)

\* C9: with a member whose model type or tokenizer type does not match the
\* first member's, the call gets no further than the compatibility check: it
\* ends in the error of the first failing check (model types first) with no
\* tokenization, encoder run, forward step or tensor operation executed.
C9_MismatchFailsBeforeAnyWork ==
  (ModelTypeMismatch \/ TokenizerTypeMismatch)
    => /\ pc \in {"call", "error"}
       /\ pc = "error" =>
            err = IF ModelTypeMismatch
                    THEN "ValueError: Not all models are of the same type."
                    ELSE "ValueError: Not all tokenizer are of the same type."
       /\ input_ids = <<>> /\ init_len = 0 /\ notices = {}
       /\ encRuns = {} /\ fwdLog = <<>> /\ tensorOps = 0

\* Both checks would fail; the call ended on the model-type error.
C9_Witness ==
  /\ pc = "error"
  /\ ModelTypeMismatch
  /\ TokenizerTypeMismatch
  /\ err = "ValueError: Not all models are of the same type."

\* The members' raw scores of the step just completed.
ColMax(v) == MaxOf({next_token_logits[k][v] : k \in 1..N})
ColSum(v) == SumSeq([k \in 1..N |-> next_token_logits[k][v]])
TopRaw == MaxOf({next_token_logits[k][v] : k \in 1..N, v \in Vocab})
StepCompleted == pc \in {"loop", "decode", "done"} /\ iters >= 1 /\ Len(next_token_logits) = N

\* C10: after a step under max pooling the pooled score of every token is the
\* maximum of the members' scores for it and the selected token is one that
\* some member gives the highest raw score of all; under mean pooling the
\* pooled score is the members' average and the selected token maximizes it.
C10_PooledScoreAndSelection ==
  StepCompleted =>
    /\ pool_type = "max" =>
         /\ \A v \in Vocab : pooled[v] = Frac(ColMax(v), 1)
         /\ \E k \in 1..N : next_token_logits[k][next_tokens] = TopRaw
    /\ pool_type = "mean" =>
         /\ \A v \in Vocab : pooled[v].num * N = ColSum(v) * pooled[v].den
         /\ \A v \in Vocab : ColSum(v) <= ColSum(next_tokens)

\* Mean pooling selected a token that neither of two members ranks highest,
\* where max pooling of the same scores selects another token.
C10_Witness ==
  /\ StepCompleted
  /\ pool_type = "mean"
  /\ N = 2
  /\ \A k \in 1..N : \E v \in Vocab : next_token_logits[k][v] > next_token_logits[k][next_tokens]
  /\ ColMax(next_tokens) < TopRaw

\* C11: once a member's forward step has failed the call is in its error
\* state and stays there: no forward step, pooling or decoding is executed
\* afterwards and no text is returned.
C11_ForwardFailureAbortsCall ==
  /\ [](err = ForwardError => (pc = "error" /\ pred = <<>>))
  /\ [][err = ForwardError =>
          (pc' = "error" /\ fwdLog' = fwdLog /\ tensorOps' = tensorOps
             /\ input_ids' = input_ids /\ pred' = pred)]_vars

\* The second member's forward step failed in a later decoding step.
C11_Witness ==
  /\ pc = "error"
  /\ err = ForwardError
  /\ iters >= 1
  /\ member = 2
  /\ Len(next_token_logits) = 1

Prepared == pc \in {"loop", "forward", "pool", "select", "decode", "done"}

\* C12: with eos_token_id configured, pad_token_id is defined from the end of
\* the preparation on (it is eos_token_id, with a notice, when the
\* configuration has none), the call is not in error for it, and the
\* assertion of the loop body never fails.
C12_PadDefinedWheneverEosIs ==
  /\ err # PadAssertionError
  /\ (config.eos_token_id # None /\ Prepared) =>
       /\ pad_token_id # None
       /\ config.pad_token_id = None =>
            /\ pad_token_id = config.eos_token_id
            /\ "pad_token_id set to eos_token_id" \in notices

\* A call without a pad id in its configuration ran the loop and returned.
C12_Witness ==
  /\ pc = "done"
  /\ config.pad_token_id = None
  /\ config.eos_token_id # None
  /\ pad_token_id = config.eos_token_id
  /\ iters >= 2

\* C13: a call whose prepared input already has max_length tokens or more
\* emits the notice, never enters an error state, has a next step until it
\* has returned, and returns the decoding of its final shared sequence.
C13_LongInputIsNotAnError ==
  (Prepared /\ init_len >= config.max_length) =>
    /\ "input length >= max_length" \in notices
    /\ err = "none"
    /\ pc \in {"loop", "decode", "done"}
    /\ pc # "done" => ENABLED Next
    /\ pc = "done" => pred = SkipSpecial(input_ids)

\* A decoder-only call with an input longer than max_length returned text.
C13_Witness ==
  /\ pc = "done"
  /\ init_len > config.max_length
  /\ "input length >= max_length" \in notices
  /\ pred # <<>>

\* ------------------------------------------------------------------- C14
\* A second generate call on the same EnsembleGenerator, its steps interleaved
\* with the first call's.  The object holds self.models and self.device only
\* (lines 15-21); everything a generation works on is a local variable of
\* generate_greedy_search (lines 54-115), so the second call has its own copy,
\* kept in `other`.

\* Mutant of CallLocals: the decode-state bundle is kept on the object, so the
\* second call works on whatever the first call stored there.
CallLocalsOnSelf(own) == [own EXCEPT !.kwargs = model_kwargs]

\* The locals a call reads at the head of an iteration are its own.
CallLocals(own) == own

\* A full ensemble whose configuration names a pad token; the second call is
\* made with another text and the other pool type.
InitTwoCalls ==
  /\ models \in [1..MaxMembers -> [cls : {"SummarizerModel"}, tokenizer : {"T5Tokenizer"},
                                    ckpt : Ckpts]]
  /\ AtCall
  /\ config.pad_token_id = TokPad
  /\ pool_type \in {"mean", "max"}
  /\ \E text \in SeqsOver({Word}, MaxSrcLen) \ {src_text},
        pt \in {"mean", "max"} \ {pool_type} :
       other = [pc |-> "call", src_text |-> text, pool_type |-> pt, s |-> <<>>, pred |-> <<>>]

\* lines 26-115 of the second call.
OtherPrepare ==
  /\ other.pc = "call"
  /\ other' = [other EXCEPT !.pc = "loop", !.s = EnsPreparedFor(models, other.src_text)]
  /\ UNCHANGED << inputs, pc, err, pad_token_id, input_ids, model_kwargs, cur_len,
                  unfinished_sequences, sequence_lengths, member, model_inputs,
                  next_token_logits, outputs, pooled, next_tokens, notices, pred,
                  iters, init_len, fwdLog, encRuns, tensorOps >>

\* lines 119-170 of the second call: one pass of the while loop.
OtherIterate ==
  /\ other.pc = "loop"
  /\ LET s == EnsIterateFor(models, other.pool_type, CallLocals(other.s))
     IN  other' = [other EXCEPT !.pc = IF s.running THEN "loop" ELSE "decode", !.s = s]
  /\ UNCHANGED << inputs, pc, err, pad_token_id, input_ids, model_kwargs, cur_len,
                  unfinished_sequences, sequence_lengths, member, model_inputs,
                  next_token_logits, outputs, pooled, next_tokens, notices, pred,
                  iters, init_len, fwdLog, encRuns, tensorOps >>

\* lines 172-175 of the second call.
OtherDecode ==
  /\ other.pc = "decode"
  /\ other' = [other EXCEPT !.pc = "done", !.pred = SkipSpecial(other.s.ids)]
  /\ UNCHANGED << inputs, pc, err, pad_token_id, input_ids, model_kwargs, cur_len,
                  unfinished_sequences, sequence_lengths, member, model_inputs,
                  next_token_logits, outputs, pooled, next_tokens, notices, pred,
                  iters, init_len, fwdLog, encRuns, tensorOps >>

NextTwoCalls == Next \/ OtherPrepare \/ OtherIterate \/ OtherDecode

SpecTwoCalls == InitTwoCalls /\ [][NextTwoCalls]_vars

\* C14: with the steps of two calls on one object interleaved in any order,
\* the shared sequence, cur_len, unfinished mask, sequence_length and
\* decode-state bundle of each call are at every moment what that call alone
\* computes from its own text and pool type, and each call returns what it
\* returns when run by itself.
C14_InterleavedCallsAreIndependent ==
  /\ Prepared =>
       LET s == EnsRun(models, iters)
       IN  /\ s.ids = input_ids
           /\ s.kwargs = model_kwargs
           /\ s.unfinished = unfinished_sequences
           /\ s.seqlen = sequence_lengths
           /\ s.cur_len = cur_len
           /\ pc = "done" => pred = SkipSpecial(EnsRun(models, config.max_length).ids)
  /\ other.pc \in {"loop", "decode", "done"} =>
       /\ LET alone == EnsRunFor(models, other.src_text, other.pool_type, other.s.iters)
          IN  /\ other.s.ids = alone.ids
              /\ other.s.kwargs = alone.kwargs
              /\ other.s.unfinished = alone.unfinished
              /\ other.s.seqlen = alone.seqlen
              /\ other.s.cur_len = alone.cur_len
       /\ other.pc = "done" =>
            other.pred = SkipSpecial(EnsRunFor(models, other.src_text, other.pool_type,
                                               config.max_length).ids)

C14_Witness ==
  /\ pc = "forward" /\ iters >= 1 /\ N = 2
  /\ other.pc = "loop" /\ other.s.iters >= 1
  /\ other.src_text # src_text /\ other.pool_type # pool_type

\* ------------------------------------------------------------------- C15
\* C15: the shared sequence changes only when it is prepared and, once per
\* step and by one token, in the selection that follows the pooling; when the
\* scores are pooled and a token is selected the list holds exactly N score
\* vectors, the k-th being member k's forward result of this very step on the
\* inputs built from the current shared sequence, and the pooled vector is
\* computed from these N vectors; all forward steps of one step have read the
\* same shared sequence.
C15_OneMutationPerStepAfterAllMembers ==
  /\ [](Prepared => Len(input_ids) = init_len + iters)
  /\ [](\A a, b \in 1..Len(fwdLog) :
          fwdLog[a].step = fwdLog[b].step => fwdLog[a].ids = fwdLog[b].ids)
  /\ [](pc \in {"pool", "select"} =>
          /\ Len(next_token_logits) = N
          /\ Len(fwdLog) >= N
          /\ model_inputs = PrepareInputs(input_ids, model_kwargs)
          /\ \A k \in 1..N :
               /\ fwdLog[Len(fwdLog) - N + k].member = k
               /\ fwdLog[Len(fwdLog) - N + k].step = iters
               /\ fwdLog[Len(fwdLog) - N + k].ids = input_ids
               /\ next_token_logits[k] = Forward(models, k, model_inputs).logits)
  /\ [](pc = "select" =>
          /\ pool_type = "max" => \A v \in Vocab : pooled[v] = Frac(ColMax(v), 1)
          /\ pool_type = "mean" =>
               \A v \in Vocab : pooled[v].num * N = ColSum(v) * pooled[v].den)
  /\ [][input_ids' # input_ids =>
          \/ pc = "prepare"
          \/ /\ pc = "select"
             /\ Len(input_ids') = Len(input_ids) + 1
             /\ SubSeq(input_ids', 1, Len(input_ids)) = input_ids
             /\ iters' = iters + 1
             /\ next_tokens' = input_ids'[Len(input_ids')]]_vars

C15_Witness ==
  /\ pc = "select" /\ N = 2 /\ iters >= 1 /\ Len(fwdLog) = 4
  /\ next_token_logits[1] # next_token_logits[2]

\* ------------------------------------------------------------------- C16
\* (a) the only row is finished, (b) the shared sequence has reached
\* max_length, (c) cur_len is not below max_length.
AllFinished == unfinished_sequences = 0
MaxLengthReached == Len(input_ids) >= config.max_length
CurLenAtLimit == cur_len >= config.max_length
InLoop == pc \in {"loop", "forward", "pool", "select"}

\* C16: the loop has been left for the decoding only with one of (a), (b),
\* (c) true; inside a step none of them is true; the loop test leaves the loop
\* exactly when one of them holds and otherwise starts a step; a completed
\* step leaves the loop exactly when (a) or (b) holds after it and otherwise
\* returns to the loop test; once the row is finished no forward step is
\* made; and inside the loop a next step is always possible.
C16_LoopLeftExactlyOnTerminalCondition ==
  /\ [](pc \in {"decode", "done"} => (AllFinished \/ MaxLengthReached \/ CurLenAtLimit))
  /\ [](pc \in {"forward", "pool", "select"} =>
          ~(AllFinished \/ MaxLengthReached \/ CurLenAtLimit))
  /\ [](AllFinished => pc \in {"decode", "done"})
  /\ [](InLoop => ENABLED Next)
  /\ [][pc = "loop" =>
          pc' = IF AllFinished \/ MaxLengthReached \/ CurLenAtLimit THEN "decode"
                ELSE "forward"]_vars
  /\ [][(pc = "select" /\ pc' # "error") =>
          pc' = IF AllFinished' \/ MaxLengthReached' THEN "decode" ELSE "loop"]_vars
  /\ [][AllFinished => fwdLog' = fwdLog]_vars

\* The loop was left by (a) alone, before the length limit.
C16_Witness ==
  /\ pc = "decode" /\ AllFinished /\ ~MaxLengthReached /\ ~CurLenAtLimit
  /\ iters >= 2 /\ Len(fwdLog) = iters * N

\* ------------------------------------------------------------------- C17
\* C17: with no eos_token_id configured the appended token is always the
\* arg-max of the processed pooled scores as it stands, the row stays
\* unfinished and sequence_lengths keeps the value it was initialised with,
\* the loop is left only with the length limit reached, and a call that
\* starts below max_length returns after exactly max_length - initial_length
\* steps with a shared sequence of exactly max_length tokens.
C17_NoEosRunsToMaxLength ==
  (config.eos_token_id = None /\ Prepared) =>
    /\ unfinished_sequences = 1
    /\ sequence_lengths = config.max_length
    /\ pad_token_id = config.pad_token_id
    /\ (pc \in {"loop", "decode", "done"} /\ iters >= 1) =>
         /\ next_tokens = ArgMax(LogitsProcessor(SubSeq(input_ids, 1, Len(input_ids) - 1), pooled))
         /\ input_ids[Len(input_ids)] = next_tokens
    /\ pc \in {"decode", "done"} => (MaxLengthReached \/ CurLenAtLimit)
    /\ (pc \in {"decode", "done"} /\ init_len < config.max_length) =>
         /\ iters = config.max_length - init_len
         /\ Len(input_ids) = config.max_length
    /\ (InLoop /\ init_len < config.max_length) => iters <= config.max_length - init_len

\* Without an eos id the token that the tokenizer uses as eos is selected in
\* the middle of the sequence and the loop goes on to max_length.
C17_Witness ==
  /\ pc = "done" /\ config.eos_token_id = None /\ init_len < config.max_length
  /\ iters >= 2 /\ Len(input_ids) = config.max_length
  /\ \E p \in init_len + 1 .. Len(input_ids) - 1 : input_ids[p] = TokEos

\* ------------------------------------------------------------------- C18
EosConfigured == config.eos_token_id # None

\* C18 as stated: once the row has finished on eos_token_id, the
\* sequence_length recorded for it is the length of the shared sequence with
\* the eos token just appended.
C18_RecordedLengthIncludesEos ==
  (EosConfigured /\ AllFinished) => sequence_lengths = Len(input_ids)

\* C18 amended: the step that selects eos_token_id for the unfinished row
\* appends it, records as sequence_length the cur_len the step started with
\* and leaves the loop without advancing cur_len; so the recorded length is
\* the length of the shared sequence without the eos token, one less than its
\* length, and the last token of the sequence is the eos token.
C18_RecordedLengthExcludesEos ==
  /\ []((EosConfigured /\ AllFinished) =>
          /\ sequence_lengths = cur_len
          /\ sequence_lengths = Len(input_ids) - 1
          /\ input_ids[Len(input_ids)] = config.eos_token_id)
  /\ [][(pc = "select" /\ pc' # "error" /\ EosConfigured
           /\ next_tokens' = config.eos_token_id) =>
          /\ input_ids' = Append(input_ids, config.eos_token_id)
          /\ sequence_lengths' = cur_len
          /\ sequence_lengths' = Len(input_ids)
          /\ cur_len' = cur_len
          /\ AllFinished'
          /\ pc' = "decode"]_vars
  /\ [][(pc = "select" /\ pc' # "error" /\ EosConfigured
           /\ next_tokens' # config.eos_token_id) =>
          /\ sequence_lengths' = sequence_lengths
          /\ ~AllFinished']_vars

C18_Witness ==
  /\ pc = "done" /\ EosConfigured /\ AllFinished /\ iters >= 2
  /\ sequence_lengths = Len(input_ids) - 1
  /\ sequence_lengths < config.max_length - 1

\* ------------------------------------------------------------------- C19
LengthLimit == IF init_len > config.max_length THEN init_len ELSE config.max_length

\* C19 as stated: the shared sequence never has more than
\* max(max_length, initial_length) tokens, at every loop head cur_len is the
\* length of the shared sequence and is below max_length, and with
\* initial_length <= max_length the returned sequence has at most max_length
\* tokens.
C19_LoopHeadBelowMaxLength ==
  /\ Prepared => Len(input_ids) <= LengthLimit
  /\ pc = "loop" => (cur_len = Len(input_ids) /\ cur_len < config.max_length)
  /\ (pc = "done" /\ init_len <= config.max_length) => Len(input_ids) <= config.max_length

\* C19 amended: the shared sequence never has more than
\* max(max_length, initial_length) tokens; at every loop head cur_len is the
\* length of the shared sequence, and it is below max_length at every loop
\* head but the first one of a call whose prepared input already has
\* max_length tokens or more, where the loop is left at once; throughout a
\* step cur_len is below max_length; with initial_length <= max_length the
\* sequence never exceeds max_length tokens, the returned one included.
C19_LengthBound ==
  /\ Prepared => Len(input_ids) <= LengthLimit
  /\ pc = "loop" =>
       /\ cur_len = Len(input_ids)
       /\ cur_len < config.max_length \/ (iters = 0 /\ init_len >= config.max_length)
  /\ pc \in {"forward", "pool", "select"} =>
       (cur_len = Len(input_ids) /\ cur_len < config.max_length)
  /\ (Prepared /\ init_len <= config.max_length) => Len(input_ids) <= config.max_length
  /\ (pc = "done" /\ init_len <= config.max_length) => Len(pred) <= config.max_length

\* A call that started below max_length grew the sequence to max_length,
\* meeting in between a loop head with cur_len below max_length.
C19_Witness ==
  /\ pc = "decode" /\ EosConfigured /\ ~AllFinished
  /\ init_len < config.max_length /\ iters >= 2
  /\ Len(input_ids) = config.max_length /\ cur_len = config.max_length - 1

\* ------------------------------------------------------------------- C20
\* C20: with the single row of a call, the row is unfinished at every loop
\* test and throughout every step; the token a step appends is the arg-max
\* of the processed pooled scores, unchanged by the pad override; and among
\* the tokens appended by the loop eos_token_id occurs at most as the last
\* token of the shared sequence.
C20_SingleRowUnfinishedInLoop ==
  /\ InLoop => unfinished_sequences = 1
  /\ (pc \in {"loop", "decode", "done"} /\ iters >= 1) =>
       /\ next_tokens = ArgMax(LogitsProcessor(SubSeq(input_ids, 1, Len(input_ids) - 1), pooled))
       /\ input_ids[Len(input_ids)] = next_tokens
  /\ (EosConfigured /\ Prepared) =>
       \A p \in init_len + 1 .. Len(input_ids) - 1 : input_ids[p] # config.eos_token_id

\* A call with a pad token other than eos ends on a selected eos token after
\* steps that selected other tokens.
C20_Witness ==
  /\ pc = "done" /\ EosConfigured /\ pad_token_id # config.eos_token_id
  /\ iters >= 2 /\ input_ids[Len(input_ids)] = config.eos_token_id
  /\ next_tokens = config.eos_token_id
  /\ unfinished_sequences = 0

====
